---- MODULE Spec2Model ----
(***************************************************************************)
(* Model of weather-mcp-server/weather_server.py: the three MCP tools      *)
(* get_current_weather, get_weekly_forecast and get_today_hourly_weather,  *)
(* the provider call fetch_weather_data and the code table                 *)
(* weather_code_to_description.                                            *)
(*                                                                         *)
(* JSON / Python values are tagged records [k |-> kind, v |-> payload]:    *)
(*   "null" (None), "num" (an integer), "str" (a string), "list" (a       *)
(*   sequence of values) and "map" (a function from keys to values).       *)
(* TLA+ strings are ASCII, so the Japanese literals of the source are      *)
(* written in romaji; every literal keeps its role and the prefix          *)
(* relation between the "unknown" sentinel and the unknown-code message.   *)
(* Numbers are integers: the provider's floats are formatted by str() in   *)
(* the same way, value first and unit after.                               *)
(*                                                                         *)
(* Time is counted in periods of three hours since 2024-01-01T00:00Z, the  *)
(* coarsest unit in which the offsets of the zones used are whole.         *)
(***************************************************************************)
EXTENDS Integers, Sequences, FiniteSets, TLC

VARIABLES
    clock,        \* the present instant, read by datetime.now()
    response,     \* what urlopen/json.loads produced for the invocation
    result,       \* the invocation's outcome: returned value or raised fault
    rerun,        \* a second get_today_hourly_weather run on the same response
    code,         \* the argument of a direct weather_code_to_description call
    description   \* what that call returned

vars == <<clock, response, result, rerun, code, description>>

(***************************************************************************)
(* Bounds of the model.                                                    *)
(***************************************************************************)
MaxDays == 3
MaxHours == 2
MaxInstant == 5
MaxCode == 110

(***************************************************************************)
(* Python values.                                                          *)
(***************************************************************************)
JNull == [k |-> "null", v |-> 0]
JNum(n) == [k |-> "num", v |-> n]
JStr(s) == [k |-> "str", v |-> s]
JList(q) == [k |-> "list", v |-> q]
JMap(f) == [k |-> "map", v |-> f]
EmptyMap == JMap(<<>>)
EmptyList == JList(<<>>)

\* str(x) as the f-strings apply it to a scalar
PyStr(x) ==
    CASE x.k = "str" -> x.v
      [] x.k = "num" -> ToString(x.v)
      [] x.k = "null" -> "None"

\* dict.get(key, default)
Get(m, key, default) == IF key \in DOMAIN m.v THEN m.v[key] ELSE default

\* len(x) is defined (of the values drawn here only lists are sized;
\* None and numbers raise TypeError)
Sized(x) == x.k = "list"

\* bool(x)
Truthy(x) ==
    CASE x.k = "null" -> FALSE
      [] x.k = "num" -> x.v # 0
      [] x.k = "str" -> x.v # ""
      [] x.k = "list" -> x.v # <<>>
      [] x.k = "map" -> DOMAIN x.v # {}

\* s.startswith(p)
startswith(s, p) == Len(s) >= Len(p) /\ SubSeq(s, 1, Len(p)) = p

\* sub in s, for strings
Contains(s, sub) ==
    \E i \in 1..(Len(s) - Len(sub) + 1) : SubSeq(s, i, i + Len(sub) - 1) = sub

\* `"error" in data`: defined for mappings (key), lists (element) and strings
HasIn(data) == data.k \in {"map", "list", "str"}
ErrorIn(data) ==
    CASE data.k = "map" -> "error" \in DOMAIN data.v
      [] data.k = "list" -> \E i \in DOMAIN data.v : data.v[i] = JStr("error")
      [] data.k = "str" -> Contains(data.v, "error")

(***************************************************************************)
(* weather_code_to_description                                             *)
(***************************************************************************)
weather_codes ==
    0 :> "kaisei" @@
    1 :> "oomune hare" @@
    2 :> "hare tokidoki kumori" @@
    3 :> "kumori" @@
    45 :> "kiri" @@
    48 :> "chakuhyousei no kiri" @@
    51 :> "kirisame (yowai)" @@
    53 :> "kirisame (chuuteido)" @@
    55 :> "kirisame (tsuyoi)" @@
    56 :> "chakuhyousei no kirisame (yowai)" @@
    57 :> "chakuhyousei no kirisame (tsuyoi)" @@
    61 :> "ame (yowai)" @@
    63 :> "ame (chuuteido)" @@
    65 :> "ame (tsuyoi)" @@
    66 :> "chakuhyousei no ame (yowai)" @@
    67 :> "chakuhyousei no ame (tsuyoi)" @@
    71 :> "yuki (yowai)" @@
    73 :> "yuki (chuuteido)" @@
    75 :> "yuki (tsuyoi)" @@
    77 :> "yukitsubu (snow grain)" @@
    80 :> "niwaka ame (yowai)" @@
    81 :> "niwaka ame (chuuteido)" @@
    82 :> "niwaka ame (tsuyoi)" @@
    85 :> "niwaka yuki (yowai)" @@
    86 :> "niwaka yuki (tsuyoi)" @@
    95 :> "raiu (yowai - chuuteido)" @@
    96 :> "raiu (hyou wo tomonau, yowai - chuuteido)" @@
    99 :> "raiu (hyou wo tomonau, tsuyoi)"

UnknownCodePrefix == "fumei na tenki koodo: "

\* a mis-keyed table row: 86 is looked up under 84
weather_code_to_description_shifted(c) ==
    IF c.k = "num" /\ c.v \in ((DOMAIN weather_codes \ {86}) \cup {84})
    THEN weather_codes[IF c.v = 84 THEN 86 ELSE c.v]
    ELSE UnknownCodePrefix \o PyStr(c)

weather_code_to_description(c) ==
    IF c.k = "num" /\ c.v \in DOMAIN weather_codes
    THEN weather_codes[c.v]
    ELSE UnknownCodePrefix \o PyStr(c)

(***************************************************************************)
(* fetch_weather_data: one urlopen, whose outcome is either a decoded JSON *)
(* body or an exception with message exc.                                  *)
(***************************************************************************)
ErrorPrefix == "API rikuesuto ni shippai shimashita: "

\* a retry after a failed call
fetch_weather_data_retry(latitude, longitude, outcome) ==
    IF outcome.ok
    THEN [data |-> outcome.body, urlopens |-> 1]
    ELSE [data |-> JMap([error |-> JStr(ErrorPrefix \o outcome.exc)]),
          urlopens |-> 2]

\* a fixed message that drops the exception text
fetch_weather_data_mute(latitude, longitude, outcome) ==
    IF outcome.ok
    THEN [data |-> outcome.body, urlopens |-> 1]
    ELSE [data |-> JMap([error |-> JStr(ErrorPrefix)]), urlopens |-> 1]

fetch_weather_data(latitude, longitude, outcome) ==
    IF outcome.ok
    THEN [data |-> outcome.body, urlopens |-> 1]
    ELSE [data |-> JMap([error |-> JStr(ErrorPrefix \o outcome.exc)]),
          urlopens |-> 1]

\* how a tool invocation ends
Returned(value, n) ==
    [status |-> "returned", value |-> value, exc |-> "", urlopens |-> n]
Raised(e, n) ==
    [status |-> "raised", value |-> JNull, exc |-> e, urlopens |-> n]

coordinates(latitude, longitude) ==
    JMap([latitude |-> JNum(latitude), longitude |-> JNum(longitude)])

(***************************************************************************)
(* get_current_weather                                                     *)
(***************************************************************************)
get_current_weather(latitude, longitude, location_name, outcome) ==
    LET f == fetch_weather_data(latitude, longitude, outcome)
        data == f.data
        n == f.urlopens
    IN  IF ~HasIn(data) THEN Raised("TypeError", n)
        ELSE IF ErrorIn(data) THEN Returned(data, n)
        ELSE IF data.k # "map" THEN Raised("AttributeError", n)
        ELSE LET current == Get(data, "current", EmptyMap) IN
             IF current.k # "map" THEN Raised("AttributeError", n)
             ELSE Returned(JMap([
                 location |-> JStr(location_name),
                 coordinates |-> coordinates(latitude, longitude),
                 current_time |-> Get(current, "time", JStr("")),
                 temperature |->
                     JStr(PyStr(Get(current, "temperature_2m", JStr("N/A")))
                          \o "°C"),
                 humidity |->
                     JStr(PyStr(Get(current, "relative_humidity_2m",
                                    JStr("N/A"))) \o "%"),
                 wind_speed |->
                     JStr(PyStr(Get(current, "wind_speed_10m", JStr("N/A")))
                          \o " km/h"),
                 weather |->
                     JStr(weather_code_to_description(
                              Get(current, "weather_code", JNum(0)))),
                 weather_code |-> Get(current, "weather_code", JNum(0))]), n)

(***************************************************************************)
(* get_weekly_forecast                                                     *)
(***************************************************************************)
UnknownWeather == "fumei"

\* one field of a record: formatted when index i (0-based) is inside the
\* array, the sentinel otherwise
with_unit(arr, i, unit) ==
    IF i < Len(arr.v) THEN JStr(PyStr(arr.v[i + 1]) \o unit) ELSE JStr("N/A")

\* the bound of temperature_2m_max guards temperature_2m_min
day_data_wrong_bound(times, wcodes, temp_max, temp_min, precipitation, i) ==
    JMap([
        date |-> times.v[i + 1],
        weather |->
            IF i < Len(wcodes.v)
            THEN JStr(weather_code_to_description(wcodes.v[i + 1]))
            ELSE JStr(UnknownWeather),
        temperature_max |-> with_unit(temp_max, i, "°C"),
        temperature_min |->
            IF i < Len(temp_max.v) /\ i < Len(temp_min.v)
            THEN JStr(PyStr(temp_min.v[i + 1]) \o "°C")
            ELSE JStr("N/A"),
        precipitation |-> with_unit(precipitation, i, "mm")])

day_data(times, wcodes, temp_max, temp_min, precipitation, i) ==
    JMap([
        date |-> times.v[i + 1],
        weather |->
            IF i < Len(wcodes.v)
            THEN JStr(weather_code_to_description(wcodes.v[i + 1]))
            ELSE JStr(UnknownWeather),
        temperature_max |-> with_unit(temp_max, i, "°C"),
        temperature_min |-> with_unit(temp_min, i, "°C"),
        precipitation |-> with_unit(precipitation, i, "mm")])

get_weekly_forecast(latitude, longitude, location_name, outcome) ==
    LET f == fetch_weather_data(latitude, longitude, outcome)
        data == f.data
        n == f.urlopens
    IN  IF ~HasIn(data) THEN Raised("TypeError", n)
        ELSE IF ErrorIn(data) THEN Returned(data, n)
        ELSE IF data.k # "map" THEN Raised("AttributeError", n)
        ELSE LET daily == Get(data, "daily", EmptyMap) IN
             IF daily.k # "map" THEN Raised("AttributeError", n)
             ELSE LET times == Get(daily, "time", EmptyList)
                      wcodes == Get(daily, "weather_code", EmptyList)
                      temp_max == Get(daily, "temperature_2m_max", EmptyList)
                      temp_min == Get(daily, "temperature_2m_min", EmptyList)
                      precipitation ==
                          Get(daily, "precipitation_sum", EmptyList)
                  IN  \* range(len(times))
                      IF ~Sized(times) THEN Raised("TypeError", n)
                      \* the first iteration takes len() of every array
                      ELSE IF /\ Len(times.v) > 0
                              /\ \E a \in {wcodes, temp_max, temp_min,
                                           precipitation} : ~Sized(a)
                      THEN Raised("TypeError", n)
                      ELSE Returned(JMap([
                          location |-> JStr(location_name),
                          coordinates |-> coordinates(latitude, longitude),
                          forecast_period |-> JStr("7 nichikan"),
                          forecast |-> JList(
                              [j \in 1..Len(times.v) |->
                                  day_data(times, wcodes, temp_max, temp_min,
                                           precipitation, j - 1)])]), n)

(***************************************************************************)
(* get_today_hourly_weather                                                *)
(***************************************************************************)
NoHourlyDataMessage == "jikanbetsu deeta ga mitsukarimasen."

PeriodsPerDay == 8

\* ZoneInfo(key): the zones the model knows, with their UTC offsets in
\* periods; any other key raises inside the try block
ZoneInfoKeys == {"Asia/Tokyo", "UTC"}
utcoffset(key) == IF key = "Asia/Tokyo" THEN 3 ELSE 0

\* the system's local zone (UTC-6)
LocalZoneOffset == -2

\* strftime("%Y-%m-%d") of a local time given in periods
strftime(local) ==
    LET d == (local \div PeriodsPerDay) + 1
    IN  "2024-01-" \o (IF d < 10 THEN "0" \o ToString(d) ELSE ToString(d))

\* the reported zone is ignored and the requested one, Asia/Tokyo, is used
today_str_tokyo(tz_name, now) == strftime(now + utcoffset("Asia/Tokyo"))

today_str(tz_name, now) ==
    IF tz_name.k = "str" /\ tz_name.v \in ZoneInfoKeys
    THEN strftime(now + utcoffset(tz_name.v))
    ELSE strftime(now + LocalZoneOffset)

\* `not times`: an empty list passes for data
no_times_null_only(times) == times.k = "null"

no_times(times) == ~Truthy(times)

\* only the year and month of the prefix are compared
hour_matches_month(t, day_prefix) ==
    t.k = "str" /\ startswith(t.v, SubSeq(day_prefix, 1, 7))

hour_matches(t, day_prefix) == t.k = "str" /\ startswith(t.v, day_prefix)

hour_item(times, temps, codes, precs, i) ==
    JMap([
        time |-> times.v[i + 1],
        temperature |-> with_unit(temps, i, "°C"),
        weather |->
            IF i < Len(codes.v)
            THEN JStr(weather_code_to_description(codes.v[i + 1]))
            ELSE JStr(UnknownWeather),
        weather_code |-> IF i < Len(codes.v) THEN codes.v[i + 1] ELSE JNull,
        precipitation |-> with_unit(precs, i, "mm")])

\* build_hours_for raises TypeError when a matching hour meets an array
\* that has no len()
build_hours_raises(times, temps, codes, precs, day_prefix) ==
    /\ \E j \in DOMAIN times.v : hour_matches(times.v[j], day_prefix)
    /\ \E a \in {temps, codes, precs} : ~Sized(a)

RECURSIVE build_hours_from(_, _, _, _, _, _)
build_hours_from(times, temps, codes, precs, day_prefix, i) ==
    IF i >= Len(times.v) THEN <<>>
    ELSE (IF hour_matches(times.v[i + 1], day_prefix)
          THEN <<hour_item(times, temps, codes, precs, i)>>
          ELSE <<>>)
         \o build_hours_from(times, temps, codes, precs, day_prefix, i + 1)

build_hours_for(times, temps, codes, precs, day_prefix) ==
    build_hours_from(times, temps, codes, precs, day_prefix, 0)

hourly_result(latitude, longitude, location_name, today, hours) ==
    JMap([
        location |-> JStr(location_name),
        coordinates |-> coordinates(latitude, longitude),
        date |-> JStr(today),
        hours |-> JList(hours)])

get_today_hourly_weather(latitude, longitude, location_name, outcome, now) ==
    LET f == fetch_weather_data(latitude, longitude, outcome)
        data == f.data
        n == f.urlopens
    IN  IF ~HasIn(data) THEN Raised("TypeError", n)
        ELSE IF ErrorIn(data) THEN Returned(data, n)
        ELSE IF data.k # "map" THEN Raised("AttributeError", n)
        ELSE LET hourly == Get(data, "hourly", EmptyMap) IN
        IF hourly.k # "map" THEN Raised("AttributeError", n)
        ELSE LET times == Get(hourly, "time", EmptyList)
                 temps == Get(hourly, "temperature_2m", EmptyList)
                 codes == Get(hourly, "weather_code", EmptyList)
                 precs == Get(hourly, "precipitation", EmptyList)
        IN  IF no_times(times)
            THEN Returned(JMap([error |-> JStr(NoHourlyDataMessage)]), n)
            ELSE LET tz_name == Get(data, "timezone", JStr("Asia/Tokyo"))
                     today == today_str(tz_name, now)
            IN  \* enumerate(times)
                IF ~Sized(times) THEN Raised("TypeError", n)
                ELSE IF build_hours_raises(times, temps, codes, precs, today)
                THEN Raised("TypeError", n)
                ELSE LET hours ==
                         build_hours_for(times, temps, codes, precs, today)
                IN  IF hours # <<>>
                    THEN Returned(hourly_result(latitude, longitude,
                                      location_name, today, hours), n)
                    ELSE LET current == Get(data, "current", EmptyMap) IN
                    IF current.k # "map" THEN Raised("AttributeError", n)
                    ELSE LET current_time == Get(current, "time", JNull) IN
                    IF current_time.k = "str" /\ Len(current_time.v) >= 10
                    THEN LET prefix == SubSeq(current_time.v, 1, 10) IN
                         IF build_hours_raises(times, temps, codes, precs,
                                               prefix)
                         THEN Raised("TypeError", n)
                         ELSE Returned(hourly_result(latitude, longitude,
                                  location_name, today,
                                  build_hours_for(times, temps, codes, precs,
                                                  prefix)), n)
                    ELSE Returned(hourly_result(latitude, longitude,
                             location_name, today, <<>>), n)

(***************************************************************************)
(* Inputs: the tool arguments and the outcomes of the provider call.       *)
(***************************************************************************)
\* marks a key that the mapping does not hold
Absent == [k |-> "absent", v |-> 0]

\* the mapping holding the keys of `full` whose value is not Absent
Mapping(full) ==
    JMap([key \in {x \in DOMAIN full : full[x].k # "absent"} |-> full[key]])

\* the list of the first n values of a pool
Take(pool, n) == JList([i \in 1..n |-> pool[i]])

Places == {[latitude |-> 35, longitude |-> 139, location_name |-> "Tokyo"]}

\* urlopen/read/json.loads raised: an HTTP status, a network error, a body
\* that is no JSON
FailureMessages ==
    {"HTTP Error 400: Bad Request",
     "<urlopen error timed out>",
     "Expecting value: line 1 column 1 (char 0)"}

Failed(msg) == [ok |-> FALSE, body |-> JNull, exc |-> msg]
Ok(body) == [ok |-> TRUE, body |-> body, exc |-> ""]

Failures == {Failed(m) : m \in FailureMessages}

\* decoded bodies that are no mapping
OtherBodies == {Ok(JNull), Ok(EmptyList)}

\* the current section
CurrentSections ==
    {Absent, JNull} \cup
    {Mapping([time |-> t, temperature_2m |-> tp, relative_humidity_2m |-> h,
              wind_speed_10m |-> w, weather_code |-> c]) :
        t \in {Absent, JStr("2024-01-01T21:00")},
        tp \in {Absent, JNum(21), JNull},
        h \in {Absent, JNum(55)},
        w \in {Absent, JNum(7)},
        c \in {Absent, JNum(0), JNum(52), JNull}}

CurrentOutcomes ==
    Failures \cup OtherBodies \cup
    {Ok(Mapping([current |-> c])) : c \in CurrentSections}

\* the daily section: parallel arrays of independent lengths
DailyTimePool == [i \in 1..MaxDays |-> JStr("2024-06-0" \o ToString(i))]
DailyCodePool ==
    [i \in 1..MaxDays |->
        JNum(CASE i % 4 = 1 -> 0 [] i % 4 = 2 -> 61 [] i % 4 = 3 -> 52
               [] OTHER -> 99)]
TempMaxPool == [i \in 1..MaxDays |-> JNum(26 - i)]
TempMinPool == [i \in 1..MaxDays |-> JNum(2 - i)]
PrecipitationPool ==
    [i \in 1..MaxDays |-> IF i = 2 THEN JNull ELSE JNum(i - 1)]

DailyLengths == 0..MaxDays

DailySections ==
    {Absent, JNull} \cup
    {Mapping([time |-> t, weather_code |-> c, temperature_2m_max |-> hi,
              temperature_2m_min |-> lo, precipitation_sum |-> pr]) :
        t \in {Absent, JNull} \cup
              {Take(DailyTimePool, n) : n \in DailyLengths},
        c \in {Absent, JNum(5)} \cup
              {Take(DailyCodePool, n) : n \in DailyLengths},
        hi \in {Absent} \cup {Take(TempMaxPool, n) : n \in DailyLengths},
        lo \in {JNull} \cup {Take(TempMinPool, n) : n \in DailyLengths},
        pr \in {Take(PrecipitationPool, n) : n \in DailyLengths}}

WeeklyOutcomes ==
    Failures \cup OtherBodies \cup
    {Ok(Mapping([daily |-> d])) : d \in DailySections}

\* the hourly section, the current timestamp and the reported zone
HourStamps == {JStr("2024-01-01T00:00"), JStr("2024-01-02T00:00"), JNull}
HourlyCodePool == [i \in 1..MaxHours |-> JNum(IF i % 2 = 1 THEN 3 ELSE 100)]
HourlyTempPool == [i \in 1..MaxHours |-> JNum(10 - i)]
HourlyPrecPool == [i \in 1..MaxHours |-> JNum(i)]

HourlyLengths == 0..MaxHours

HourlySections ==
    {Absent, JNull} \cup
    {Mapping([time |-> t, temperature_2m |-> tp, weather_code |-> c,
              precipitation |-> pr]) :
        t \in {Absent, JNum(5)} \cup
              {JList(q) : q \in UNION {[1..n -> HourStamps] :
                                          n \in HourlyLengths}},
        tp \in {JNull} \cup {Take(HourlyTempPool, n) : n \in HourlyLengths},
        c \in {Take(HourlyCodePool, n) : n \in HourlyLengths},
        pr \in {Take(HourlyPrecPool, n) : n \in HourlyLengths}}

HourlyCurrentSections ==
    {Absent, JNull,
     Mapping([time |-> JStr("2024-01-01T10:00")]),
     Mapping([time |-> JStr("2024-01")])}

Timezones == {Absent, JStr("UTC"), JStr("Mars/Phobos")}

HourlyOutcomes ==
    Failures \cup OtherBodies \cup
    {Ok(Mapping([hourly |-> h, current |-> c, timezone |-> z])) :
        h \in HourlySections, c \in HourlyCurrentSections, z \in Timezones}

(***************************************************************************)
(* The state machine: the host invokes one tool at a time, the tool runs   *)
(* to its return (or fault), and the host hands the outcome back.          *)
(***************************************************************************)
NoResponse == Failed("")
NoArgs == [latitude |-> 0, longitude |-> 0, location_name |-> ""]
NoRun ==
    [tool |-> "none", args |-> NoArgs, at |-> 0, status |-> "none",
     value |-> JNull, exc |-> "", urlopens |-> 0]

Run(tool, args, at, end) ==
    [tool |-> tool, args |-> args, at |-> at, status |-> end.status,
     value |-> end.value, exc |-> end.exc, urlopens |-> end.urlopens]

Init ==
    /\ clock = 4
    /\ response = NoResponse
    /\ result = NoRun
    /\ rerun = NoRun
    /\ code = 0
    /\ description = weather_code_to_description(JNum(0))

\* time passes; a finished second run ends the observation
Tick ==
    /\ clock < MaxInstant
    /\ rerun.tool = "none"
    /\ clock' = clock + 1
    /\ UNCHANGED <<response, result, rerun, code, description>>

GetCurrentWeather ==
    /\ result.tool = "none"
    /\ \E a \in Places, outcome \in CurrentOutcomes :
        /\ response' = outcome
        /\ result' = Run("get_current_weather", a, clock,
               get_current_weather(a.latitude, a.longitude, a.location_name,
                                   outcome))
    /\ UNCHANGED <<clock, rerun, code, description>>

GetWeeklyForecast ==
    /\ result.tool = "none"
    /\ \E a \in Places, outcome \in WeeklyOutcomes :
        /\ response' = outcome
        /\ result' = Run("get_weekly_forecast", a, clock,
               get_weekly_forecast(a.latitude, a.longitude, a.location_name,
                                   outcome))
    /\ UNCHANGED <<clock, rerun, code, description>>

GetTodayHourlyWeather ==
    /\ result.tool = "none"
    /\ \E a \in Places, outcome \in HourlyOutcomes :
        /\ response' = outcome
        /\ result' = Run("get_today_hourly_weather", a, clock,
               get_today_hourly_weather(a.latitude, a.longitude,
                                        a.location_name, outcome, clock))
    /\ UNCHANGED <<clock, rerun, code, description>>

\* the same tool is invoked again with the same arguments and the provider
\* answers as before
GetTodayHourlyWeatherAgain ==
    /\ result.tool = "get_today_hourly_weather"
    /\ rerun.tool = "none"
    /\ rerun' = Run("get_today_hourly_weather", result.args, clock,
           get_today_hourly_weather(result.args.latitude,
               result.args.longitude, result.args.location_name, response,
               clock))
    /\ UNCHANGED <<clock, response, result, code, description>>

\* the host hands the outcome to the caller
Respond ==
    /\ result.tool # "none"
    /\ response' = NoResponse
    /\ result' = NoRun
    /\ rerun' = NoRun
    /\ UNCHANGED <<clock, code, description>>

Next ==
    \/ Tick
    \/ GetCurrentWeather
    \/ GetWeeklyForecast
    \/ GetTodayHourlyWeather
    \/ GetTodayHourlyWeatherAgain
    \/ Respond

Spec == Init /\ [][Next]_vars

(***************************************************************************)
(* Direct calls of weather_code_to_description over a range of integers.   *)
(***************************************************************************)
Codes == (-3..MaxCode) \cup {9999}

Describe ==
    /\ \E c \in Codes :
        /\ code' = c
        /\ description' = weather_code_to_description(JNum(c))
    /\ UNCHANGED <<clock, response, result, rerun>>

NextCatalog == Describe

SpecCatalog == Init /\ [][NextCatalog]_vars

(***************************************************************************)
(* Properties.                                                             *)
(***************************************************************************)
Invoked(r) == r.tool # "none"

\* the runs on record: the invocation and, when made, its repetition
Runs == {r \in {result, rerun} : Invoked(r)}

IsErrorMapping(r) ==
    r.status = "returned" /\ r.value.k = "map" /\ DOMAIN r.value.v = {"error"}

\* a decoded body that is a mapping
BodyIsMapping == response.ok /\ response.body.k = "map"

Section(name) == Get(response.body, name, EmptyMap)

\* the i-th smallest element of a finite set of integers
Nth(S, i) == CHOOSE x \in S : Cardinality({y \in S : y < x}) = i - 1

\* the calendar date of an instant in the zone the response reports, or in
\* the system's zone when that zone is unknown
CivilDates == <<"2024-01-01", "2024-01-02", "2024-01-03">>
ReportedOffset ==
    LET z == IF BodyIsMapping
             THEN Get(response.body, "timezone", JStr("Asia/Tokyo"))
             ELSE JNull
    IN  IF z = JStr("Asia/Tokyo") THEN 3
        ELSE IF z = JStr("UTC") THEN 0
        ELSE LocalZoneOffset
DateAt(instant) == CivilDates[((instant + ReportedOffset) \div 8) + 1]

HourlySuccess(r) ==
    /\ r.tool = "get_today_hourly_weather"
    /\ response.ok
    /\ r.status = "returned"
    /\ r.value.k = "map"
    /\ "error" \notin DOMAIN r.value.v

HourlyTimes == Get(Section("hourly"), "time", EmptyList)
HourlyTemps == Get(Section("hourly"), "temperature_2m", EmptyList)
HourlyCodes == Get(Section("hourly"), "weather_code", EmptyList)
HourlyPrecs == Get(Section("hourly"), "precipitation", EmptyList)

\* the indices (1-based) of the hourly timestamps that are strings starting
\* with prefix
Matching(prefix) ==
    {i \in DOMAIN HourlyTimes.v :
        HourlyTimes.v[i].k = "str" /\ startswith(HourlyTimes.v[i].v, prefix)}

CurrentTime ==
    LET c == Section("current")
    IN  IF c.k = "map" THEN Get(c, "time", JNull) ELSE JNull

FallbackApplies(instant) ==
    /\ Matching(DateAt(instant)) = {}
    /\ CurrentTime.k = "str"
    /\ Len(CurrentTime.v) >= 10

\* the indices the claim selects for a run at the given instant
Selected(instant) ==
    IF FallbackApplies(instant)
    THEN Matching(SubSeq(CurrentTime.v, 1, 10))
    ELSE Matching(DateAt(instant))

\* C1: when the provider call failed, every tool returns exactly the mapping
\* {error: message} of the fetch, the message containing the failure, with
\* no other key.
C1_ErrorShortCircuit ==
    \A r \in Runs :
        ~response.ok =>
            /\ IsErrorMapping(r)
            /\ r.value.v["error"].k = "str"
            /\ startswith(r.value.v["error"].v, ErrorPrefix)
            /\ Contains(r.value.v["error"].v, response.exc)

C1_Witness ==
    /\ result.tool = "get_today_hourly_weather"
    /\ response = Failed("<urlopen error timed out>")
    /\ IsErrorMapping(result)

\* C2: no tool invocation ends in a raised fault; every outcome of the
\* provider call yields a returned mapping.
C2_NoFault ==
    \A r \in Runs : r.status = "returned" /\ r.value.k = "map"

DailyField(name) == Get(Section("daily"), name, EmptyList)

DailyIsRagged ==
    /\ result.tool = "get_weekly_forecast"
    /\ BodyIsMapping
    /\ Section("daily").k = "map"
    /\ \A name \in {"time", "weather_code", "temperature_2m_max",
                    "temperature_2m_min", "precipitation_sum"} :
           DailyField(name).k = "list"

QuantityAt(entry, key, arr, j, unit) ==
    /\ entry.v[key].k = "str"
    /\ (entry.v[key].v = "N/A") <=> (j > Len(arr.v))
    /\ j <= Len(arr.v) => entry.v[key].v = PyStr(arr.v[j]) \o unit

\* C3: for a daily section whose fields are sequences of independent
\* lengths, the forecast has len(time) entries in the order of time, and each
\* field of entry i is the sentinel exactly when i is outside that field's
\* array, and the formatted or translated value otherwise.
C3_WeeklyRagged ==
    DailyIsRagged =>
        /\ result.status = "returned"
        /\ result.value.k = "map"
        /\ DOMAIN result.value.v =
               {"location", "coordinates", "forecast_period", "forecast"}
        /\ LET forecast == result.value.v["forecast"].v
               times == DailyField("time").v
               wcodes == DailyField("weather_code").v
           IN  /\ Len(forecast) = Len(times)
               /\ \A j \in 1..Len(times) :
                   /\ forecast[j].v["date"] = times[j]
                   /\ (forecast[j].v["weather"].v = UnknownWeather)
                          <=> (j > Len(wcodes))
                   /\ j <= Len(wcodes) =>
                          forecast[j].v["weather"].v =
                              weather_code_to_description(wcodes[j])
                   /\ QuantityAt(forecast[j], "temperature_max",
                          DailyField("temperature_2m_max"), j, "°C")
                   /\ QuantityAt(forecast[j], "temperature_min",
                          DailyField("temperature_2m_min"), j, "°C")
                   /\ QuantityAt(forecast[j], "precipitation",
                          DailyField("precipitation_sum"), j, "mm")

\* time has three entries, temperature_2m_max one and temperature_2m_min two
C3_Witness ==
    /\ DailyIsRagged
    /\ result.status = "returned"
    /\ Len(DailyField("time").v) = 3
    /\ Len(DailyField("temperature_2m_max").v) = 1
    /\ Len(DailyField("temperature_2m_min").v) = 2
    /\ result.value.v["forecast"].v[1].v["temperature_max"] = JStr("25°C")
    /\ result.value.v["forecast"].v[2].v["temperature_max"] = JStr("N/A")
    /\ result.value.v["forecast"].v[2].v["temperature_min"] = JStr("0°C")
    /\ result.value.v["forecast"].v[3].v["temperature_min"] = JStr("N/A")

\* C4: in a successful hourly result, hours holds, in the order of
\* hourly.time, the records of the timestamps that start with today's date
\* in the reported zone; when none does and current.time is a string of at
\* least 10 characters, the records of the timestamps that start with its
\* first 10 characters; and nothing otherwise.
C4_HoursSelection ==
    \A r \in Runs :
        HourlySuccess(r) =>
            LET chosen == Selected(r.at)
            IN  r.value.v["hours"] =
                    JList([j \in 1..Cardinality(chosen) |->
                        hour_item(HourlyTimes, HourlyTemps, HourlyCodes,
                                  HourlyPrecs, Nth(chosen, j) - 1)])

\* today is 2024-01-02, both hours are of 2024-01-01 and so is current.time
C4_Witness ==
    /\ HourlySuccess(result)
    /\ DateAt(result.at) = "2024-01-02"
    /\ FallbackApplies(result.at)
    /\ CurrentTime = JStr("2024-01-01T10:00")
    /\ Len(result.value.v["hours"].v) = 2
    /\ \A j \in 1..2 :
           result.value.v["hours"].v[j].v["time"] = JStr("2024-01-01T00:00")

SameOutput(a, b) ==
    a.status = b.status /\ a.value = b.value /\ a.exc = b.exc

\* C5 as stated: two runs on the same response give the same output at every
\* pair of instants.
C5_IdempotentAtAnyInstants ==
    Invoked(rerun) => SameOutput(result, rerun)

\* C5 amended: two runs on the same response give the same output whenever
\* the two instants fall on the same calendar date of the resolved zone.
C5_IdempotentOnSameDate ==
    (Invoked(rerun) /\ DateAt(result.at) = DateAt(rerun.at))
        => SameOutput(result, rerun)

C5_Witness ==
    /\ Invoked(rerun)
    /\ rerun.at > result.at
    /\ DateAt(result.at) = DateAt(rerun.at)
    /\ HourlySuccess(rerun)
    /\ Len(rerun.value.v["hours"].v) = 2
    /\ SameOutput(result, rerun)

RangeCodes ==
    (0..3) \cup {45, 48} \cup (51..57) \cup (61..67) \cup (71..77)
        \cup (80..86) \cup (95..99)

IsUnknownMessage ==
    /\ startswith(description, UnknownCodePrefix)
    /\ Contains(description, ToString(code))

\* C6 as stated: every integer in the ranges 0-3, 45, 48, 51-57, 61-67,
\* 71-77, 80-86, 95-99 has a fixed label and every other integer the
\* unknown-code message holding the integer.
C6_RangesAreLabelled ==
    IF code \in RangeCodes
    THEN ~startswith(description, UnknownCodePrefix)
    ELSE IsUnknownMessage

LabelledCodes ==
    {0, 1, 2, 3, 45, 48, 51, 53, 55, 56, 57, 61, 63, 65, 66, 67, 71, 73, 75,
     77, 80, 81, 82, 85, 86, 95, 96, 99}

\* C6 amended: the 28 codes 0-3, 45, 48, 51, 53, 55, 56, 57, 61, 63, 65, 66,
\* 67, 71, 73, 75, 77, 80, 81, 82, 85, 86, 95, 96, 99 have a fixed label and
\* every other integer, the remaining ones of those ranges included, the
\* unknown-code message holding the integer; no integer makes the call fail.
C6_TableIsLabelled ==
    /\ IF code \in LabelledCodes
       THEN /\ ~startswith(description, UnknownCodePrefix)
            /\ description # ""
            /\ description # UnknownWeather
       ELSE IsUnknownMessage
    /\ code = 0 => description = "kaisei"
    /\ code = 61 => description = "ame (yowai)"
    /\ code = 86 => description = "niwaka yuki (tsuyoi)"

C6_Witness == code = 9999 /\ description = UnknownCodePrefix \o "9999"

NoTimeData ==
    HourlyTimes.k = "null" \/ (HourlyTimes.k = "list" /\ HourlyTimes.v = <<>>)

IsNoHourlyData(r) ==
    r.status = "returned"
        /\ r.value = JMap([error |-> JStr(NoHourlyDataMessage)])

QuantityOf(field, present, raw, unit) ==
    field = JStr(IF present THEN PyStr(raw) \o unit ELSE "N/A")

CurrentQuantity(key, name, unit) ==
    LET c == Section("current")
    IN  QuantityOf(result.value.v[key], name \in DOMAIN c.v,
                   Get(c, name, JNull), unit)

\* C8: every physical quantity of a result is the raw value followed by its
\* unit, or the sentinel N/A alone when the raw value is missing.
C8_SentinelWithoutUnit ==
    /\ (/\ result.tool = "get_current_weather"
        /\ response.ok
        /\ result.status = "returned")
       => /\ CurrentQuantity("temperature", "temperature_2m", "°C")
          /\ CurrentQuantity("humidity", "relative_humidity_2m", "%")
          /\ CurrentQuantity("wind_speed", "wind_speed_10m", " km/h")
    /\ (DailyIsRagged /\ result.status = "returned")
       => \A j \in DOMAIN result.value.v["forecast"].v :
           LET e == result.value.v["forecast"].v[j]
               hi == DailyField("temperature_2m_max")
               lo == DailyField("temperature_2m_min")
               pr == DailyField("precipitation_sum")
           IN  /\ QuantityOf(e.v["temperature_max"], j <= Len(hi.v),
                             IF j <= Len(hi.v) THEN hi.v[j] ELSE JNull, "°C")
               /\ QuantityOf(e.v["temperature_min"], j <= Len(lo.v),
                             IF j <= Len(lo.v) THEN lo.v[j] ELSE JNull, "°C")
               /\ QuantityOf(e.v["precipitation"], j <= Len(pr.v),
                             IF j <= Len(pr.v) THEN pr.v[j] ELSE JNull, "mm")
    /\ \A r \in Runs :
        HourlySuccess(r) =>
            \A j \in DOMAIN r.value.v["hours"].v :
                LET e == r.value.v["hours"].v[j]
                    i == Nth(Selected(r.at), j)
                IN  /\ QuantityOf(e.v["temperature"],
                           i <= Len(HourlyTemps.v),
                           IF i <= Len(HourlyTemps.v)
                           THEN HourlyTemps.v[i] ELSE JNull, "°C")
                    /\ QuantityOf(e.v["precipitation"],
                           i <= Len(HourlyPrecs.v),
                           IF i <= Len(HourlyPrecs.v)
                           THEN HourlyPrecs.v[i] ELSE JNull, "mm")

\* C9: in a successful hourly result every record of hours has a time that
\* starts with the result's date.
C9_DateSelectsHours ==
    \A r \in Runs :
        HourlySuccess(r) =>
            \A j \in DOMAIN r.value.v["hours"].v :
                startswith(r.value.v["hours"].v[j].v["time"].v,
                           r.value.v["date"].v)

\* C10: every invocation makes exactly one provider call, whichever way it
\* ends.
C10_OneCall ==
    \A r \in Runs : r.urlopens = 1

C10_Witness ==
    /\ result.tool = "get_weekly_forecast"
    /\ ~response.ok
    /\ IsErrorMapping(result)
    /\ result.urlopens = 1

====
